---------------------------- MODULE Spec2Model ----------------------------
(* A model of geojson2png.py: the command line is parsed, the input paths  *)
(* are filtered by check_input_filenames, and every path that is left is   *)
(* rendered by convert_to_png, one call after the other.  hex_to_rgba and  *)
(* create_amsr2_colormap are operators, computed the way the code does.    *)
EXTENDS Integers, Sequences, FiniteSets, TLC

(***************************************************************************)
(* Bounds of the model.                                                    *)
(***************************************************************************)
\* the longest list of positional arguments ("files", nargs='+')
MaxFiles == 2
\* the most '#' characters in front of the 8 hex digits given to hex_to_rgba
MaxHashes == 2

(***************************************************************************)
(* Program constants.                                                      *)
(***************************************************************************)
_XSCALE == 40
_YSCALE == 30
_DPI == 180
\* np.ones((100,4)): the rows of the lookup table
CmapRows == 100
\* the divisor of hex_to_rgba
ChannelMax == 255

VARIABLES
    cmdline,        \* the command line: the options given and the paths
    fs,             \* the file system: what lies at each location
    pc,             \* the position of the program
    args,           \* the Namespace parse_args returned
    i,              \* check_input_filenames: index of the next input
    checked_files,  \* list_of_filenames_that_actually_exist / checked_files
    stdout,         \* the lines printed
    k,              \* main's loop: index of the next checked file
    df,             \* convert_to_png: the frame read (its columns)
    default_cmap,   \* convert_to_png: the local default_cmap
    figsize,        \* the current figure's size, as given to plt.subplots
    layers,         \* the layers drawn on the current axes, in order
    saved,          \* the PNG files written, in order
    trace,          \* every library call made, in order
    hex_in,         \* the argument of a hex_to_rgba call of its own
    hex_out         \* its result

vars == <<cmdline, fs, pc, args, i, checked_files, stdout, k, df,
          default_cmap, figsize, layers, saved, trace, hex_in, hex_out>>

None == "None"

(***************************************************************************)
(* Values: a number or a text.  argparse stores a default as it is and an  *)
(* option's argument as the text of the command line (no type= is given).  *)
(***************************************************************************)
IntVal(n) == [kind |-> "int", num |-> n, text |-> ""]
StrVal(s) == [kind |-> "str", num |-> 0, text |-> s]

(***************************************************************************)
(* Paths: a sequence of components, absolute or relative to the cwd.       *)
(***************************************************************************)
Path(a, parts) == [abs |-> a, parts |-> parts]

\* the working directory of the process
Cwd == Path(TRUE, <<"work">>)

RECURSIVE NormParts(_, _)
\* os.path.normpath on the components: "." is dropped, ".." removes the
\* component before it (and is dropped at the root)
NormParts(parts, acc) ==
    IF parts = <<>> THEN acc
    ELSE LET h == Head(parts)
             t == Tail(parts)
         IN  IF h = "." THEN NormParts(t, acc)
             ELSE IF h = ".."
                  THEN NormParts(t, IF acc = <<>> THEN acc
                                    ELSE SubSeq(acc, 1, Len(acc) - 1))
                  ELSE NormParts(t, Append(acc, h))

\* os.path.abspath: normpath(join(os.getcwd(), path))
abspath(p) ==
    IF p.abs THEN Path(TRUE, NormParts(p.parts, <<>>))
    ELSE Path(TRUE, NormParts(Cwd.parts \o p.parts, <<>>))

\* the location the operating system reaches for a path (no symbolic links)
Resolve(p) ==
    Path(TRUE, NormParts(IF p.abs THEN p.parts ELSE Cwd.parts \o p.parts, <<>>))

\* geojson_filepath + '.png': the text is appended to the last component
AddSuffix(p, suffix) ==
    Path(p.abs, SubSeq(p.parts, 1, Len(p.parts) - 1)
                  \o <<p.parts[Len(p.parts)] \o suffix>>)

(***************************************************************************)
(* hex_to_rgba.  A text is a sequence of characters; a float is the exact  *)
(* fraction <<numerator, denominator>> in lowest terms.                    *)
(***************************************************************************)
LowerDigits == <<"0","1","2","3","4","5","6","7","8","9","a","b","c","d","e","f">>
UpperDigits == <<"0","1","2","3","4","5","6","7","8","9","A","B","C","D","E","F">>

\* the value of one hexadecimal digit, as int(_, 16) reads it (either case)
DigitValue(c) ==
    CHOOSE v \in 0..15 : LowerDigits[v + 1] = c \/ UpperDigits[v + 1] = c

RECURSIVE int16(_)
\* int(text, 16) of a text of hexadecimal digits
int16(text) ==
    IF text = <<>> THEN 0
    ELSE 16 * int16(SubSeq(text, 1, Len(text) - 1)) + DigitValue(text[Len(text)])

RECURSIVE GCD(_, _)
GCD(a, b) == IF b = 0 THEN a ELSE GCD(b, a % b)

\* n / d of two integers, d > 0
TrueDiv(n, d) == LET g == GCD(n, d) IN <<n \div g, d \div g>>

RECURSIVE lstrip(_, _)
\* text.lstrip(c): every leading c is removed
lstrip(text, c) ==
    IF text # <<>> /\ Head(text) = c THEN lstrip(Tail(text), c) ELSE text

\* (a variant that stops one character early)
SliceShort(text, lo, hi) ==
    SubSeq(text, lo + 1, IF hi - 1 < Len(text) THEN hi - 1 ELSE Len(text))

\* text[lo:hi] of Python, 0 <= lo <= hi
Slice(text, lo, hi) ==
    SubSeq(text, lo + 1, IF hi < Len(text) THEN hi ELSE Len(text))

hex_to_rgba(hex_color_string) ==
    LET stripped == lstrip(hex_color_string, "#")
        offsets == <<0, 2, 4, 6>>
    IN  [n \in 1..4 |->
            TrueDiv(int16(Slice(stripped, offsets[n], offsets[n] + 2)),
                    ChannelMax)]

(***************************************************************************)
(* create_amsr2_colormap.                                                  *)
(***************************************************************************)
\* np.ones((rows, cols))
np_ones(rows, cols) == [r \in 1..rows |-> [c \in 1..cols |-> <<1, 1>>]]

\* the end of an open slice such as [99: ]
SliceEnd == -1

\* (a variant that starts one index late)
SliceAssignLate(arr, lo, hi, row) ==
    LET stop == IF hi = SliceEnd \/ hi > Len(arr) THEN Len(arr) ELSE hi
    IN  [j \in 1..Len(arr) |->
            IF lo < j - 1 /\ j - 1 < stop THEN row ELSE arr[j]]

\* arr[lo:hi] = row, the row broadcast to every index lo <= j < hi of arr
\* (0-based; an open end is the length of arr, and hi is cut to it)
SliceAssign(arr, lo, hi, row) ==
    LET stop == IF hi = SliceEnd \/ hi > Len(arr) THEN Len(arr) ELSE hi
    IN  [j \in 1..Len(arr) |->
            IF lo <= j - 1 /\ j - 1 < stop THEN row ELSE arr[j]]

\* a colormap given by name, and the ListedColormap of a table
NamedCmap(name) == [kind |-> "named", name |-> name, colors |-> <<>>, bad |-> ""]
ListedColormap(colors) ==
    [kind |-> "listed", name |-> "from_list", colors |-> colors, bad |-> ""]
set_bad(cmap, color) == [cmap EXCEPT !.bad = color]

sic_colours ==
    LET c0 == np_ones(CmapRows, 4)
        c1 == SliceAssign(c0, 0, 10, hex_to_rgba(<<"#","0","0","0","0","8","b","0","0">>))
        c2 == SliceAssign(c1, 10, 20, hex_to_rgba(<<"#","1","e","9","0","f","f","f","f">>))
        c3 == SliceAssign(c2, 20, 30, hex_to_rgba(<<"#","1","e","f","a","a","0","f","f">>))
        c4 == SliceAssign(c3, 30, 40, hex_to_rgba(<<"#","2","2","8","b","2","2","f","f">>))
        c5 == SliceAssign(c4, 40, 50, hex_to_rgba(<<"#","0","0","f","a","0","0","f","f">>))
        c6 == SliceAssign(c5, 50, 60, hex_to_rgba(<<"#","7","d","f","a","0","0","f","f">>))
        c7 == SliceAssign(c6, 60, 70, hex_to_rgba(<<"#","a","d","f","f","2","f","f","f">>))
        c8 == SliceAssign(c7, 70, 80, hex_to_rgba(<<"#","f","a","f","a","0","0","f","f">>))
        c9 == SliceAssign(c8, 80, 85, hex_to_rgba(<<"#","f","a","7","d","0","0","f","f">>))
        c10 == SliceAssign(c9, 85, 90, hex_to_rgba(<<"#","f","a","0","0","0","0","f","f">>))
        c11 == SliceAssign(c10, 90, 95, hex_to_rgba(<<"#","b","a","5","5","d","3","f","f">>))
        c12 == SliceAssign(c11, 95, 99, hex_to_rgba(<<"#","9","4","0","0","d","3","f","f">>))
        c13 == SliceAssign(c12, 99, SliceEnd, hex_to_rgba(<<"#","7","8","0","0","5","a","f","f">>))
    IN  c13

create_amsr2_colormap == set_bad(ListedColormap(sic_colours), "black")

(***************************************************************************)
(* The command lines and file systems the program is run on.               *)
(***************************************************************************)
FileA == Path(TRUE, <<"work", "a.geojson">>)
FileB == Path(TRUE, <<"data", "b.geojson">>)
DirData == Path(TRUE, <<"data">>)

\* what can be given as a "files" argument: FileA by two spellings, FileB,
\* and a directory
InputPaths ==
    { Path(FALSE, <<"a.geojson">>),
      Path(FALSE, <<".", "a.geojson">>),
      Path(TRUE, <<"data", "b.geojson">>),
      Path(TRUE, <<"data">>) }

AllColumns == {"SIC", "fuel", "inaccessible", "land"}

Missing == [kind |-> "missing", readable |-> FALSE, columns |-> {}]
Directory == [kind |-> "dir", readable |-> FALSE, columns |-> {}]
Unreadable == [kind |-> "file", readable |-> FALSE, columns |-> {}]
Mesh(columns) == [kind |-> "file", readable |-> TRUE, columns |-> columns]
PngFile == [kind |-> "file", readable |-> FALSE, columns |-> {}]

\* what may lie at FileA when the program starts: nothing, a file that is
\* no GeoJSON, a full mesh, a mesh without the fuel columns, one without land
FileStates ==
    { Missing, Unreadable, Mesh(AllColumns), Mesh({"SIC", "land"}),
      Mesh({"SIC", "fuel", "inaccessible"}) }

\* what may lie at FileB
OtherFileStates == { Missing, Unreadable, Mesh(AllColumns) }

FileLists == UNION { [1..n -> InputPaths] : n \in 1..MaxFiles }

\* -x, -y, -d: none given, one of them given, all given
SizeOptions ==
    { <<None, None, None>>, <<"50", None, None>>, <<None, "20", None>>,
      <<None, None, "300">>, <<"50", "20", "300">> }

CommandLines ==
    { [ xscale   |-> size[1],
        yscale   |-> size[2],
        dpi      |-> size[3],
        palette  |-> palette,
        criteria |-> criteria,
        files    |-> files ] :
      size \in SizeOptions, palette \in BOOLEAN,
      criteria \in {None, "fuel", "inaccessible"}, files \in FileLists }

FileSystems ==
    { [q \in {FileA, FileB, DirData} |->
          IF q = FileA THEN a ELSE IF q = FileB THEN b ELSE Directory] :
      a \in FileStates, b \in OtherFileStates }

\* (os.path.exists(path): a directory counts too)
exists(files, path) ==
    /\ Resolve(path) \in DOMAIN files
    /\ files[Resolve(path)].kind \in {"file", "dir"}

\* os.path.isfile(path)
isfile(files, path) ==
    /\ Resolve(path) \in DOMAIN files
    /\ files[Resolve(path)].kind = "file"

\* one library call, as it is recorded in trace
\* (given: the size or resolution handed to the plotting library)
Call(op, path, column, given) ==
    [op |-> op, path |-> path, column |-> column, given |-> given]

\* one layer drawn by df.to_crs(epsg=4326).plot(column=..., ax=ax, ...)
Layer(column, cmap, edgecolor, linewidth) ==
    [epsg |-> 4326, column |-> column, cmap |-> cmap,
     edgecolor |-> edgecolor, linewidth |-> linewidth]

\* linewidth=0.5, in tenths
HalfPoint == 5

(***************************************************************************)
(* main, lines 102-109: parse_args.                                        *)
(***************************************************************************)
\* action="store" with a default and no type=
StoreOption(given, default) ==
    IF given = None THEN IntVal(default) ELSE StrVal(given)

\* action="store" of -c/--criteria, default 'SIC'
StoreCriteria(given) == IF given = None THEN "SIC" ELSE given

parse_args(line) ==
    [ xscale   |-> StoreOption(line.xscale, _XSCALE),
      yscale   |-> StoreOption(line.yscale, _YSCALE),
      dpi      |-> StoreOption(line.dpi, _DPI),
      palette  |-> line.palette,
      criteria |-> StoreCriteria(line.criteria),
      files    |-> line.files ]

ParseArgs ==
    /\ pc = "parse"
    /\ args' = parse_args(cmdline)
    /\ pc' = "check"
    /\ i' = 1
    /\ UNCHANGED <<cmdline, fs, checked_files, stdout, k, df, default_cmap,
                   figsize, layers, saved, trace, hex_in, hex_out>>

(***************************************************************************)
(* check_input_filenames, lines 38-47.                                     *)
(***************************************************************************)
StdoutLine(kind, path) == [kind |-> kind, path |-> path]

\* one turn of the for loop of line 40
CheckFile ==
    /\ pc = "check"
    /\ i <= Len(args.files)
    /\ LET a_filename == args.files[i]
       IN  /\ trace' = Append(trace, Call("isfile", a_filename, "", <<>>))
           /\ IF ~ isfile(fs, a_filename)
              THEN /\ stdout' = Append(stdout, StdoutLine("ignoring", a_filename))
                   /\ UNCHANGED checked_files
              ELSE /\ checked_files' = Append(checked_files, abspath(a_filename))
                   /\ stdout' = Append(stdout, StdoutLine("including", a_filename))
    /\ i' = i + 1
    /\ UNCHANGED <<cmdline, fs, pc, args, k, df, default_cmap, figsize,
                   layers, saved, hex_in, hex_out>>

\* line 47 and line 114: the list is returned and bound to checked_files
CheckReturn ==
    /\ pc = "check"
    /\ i > Len(args.files)
    /\ pc' = "loop"
    /\ k' = 1
    /\ UNCHANGED <<cmdline, fs, args, i, checked_files, stdout, df,
                   default_cmap, figsize, layers, saved, trace, hex_in, hex_out>>

(***************************************************************************)
(* convert_to_png, lines 76-94, for geojson_filepath = checked_files[k].    *)
(* A library call that fails raises, main catches nothing, and the         *)
(* program ends there (pc = "raised").                                      *)
(***************************************************************************)
\* (a variant that walks the list from its end)
geojson_filepath_reversed == checked_files[Len(checked_files) + 1 - k]

geojson_filepath == checked_files[k]

\* (a variant that draws 'land' before the criteria column)
AfterLandFirst(step) ==
    CASE step = "read_file" -> "subplots"
      [] step = "subplots"  -> "fuel"
      [] step = "fuel"      -> "land"
      [] step = "land"      -> "criteria"
      [] step = "criteria"  -> "savefig"
      [] step = "savefig"   -> "loop"

\* the statement reached when a statement of convert_to_png has run
After(step) ==
    CASE step = "read_file" -> "subplots"
      [] step = "subplots"  -> "fuel"
      [] step = "fuel"      -> "criteria"
      [] step = "criteria"  -> "land"
      [] step = "land"      -> "savefig"
      [] step = "savefig"   -> "loop"

\* (a variant that leaves default_cmap as it is)
DefaultCmapKept(criteria, current) == current

\* lines 81 and 83: default_cmap once the 'fuel' branch is passed
DefaultCmapAfter(criteria, current) ==
    IF criteria = "fuel" THEN "Wistia" ELSE current

\* (a variant that never takes the AMSR2 colormap)
CriteriaCmapDefaultOnly(amsr_palette, current) == NamedCmap(current)

\* lines 85-88: the cmap= of the criteria layer
CriteriaCmap(amsr_palette, current) ==
    IF amsr_palette THEN create_amsr2_colormap ELSE NamedCmap(current)

\* whether the plotting library takes the value for a number.  What it does
\* with a text is not decided by this program: it may refuse it or use it.
LibraryTakes(value) == IF value.kind = "int" THEN {TRUE} ELSE {TRUE, FALSE}

\* df.to_crs(epsg=4326).plot(column=column, ...) on the axes: the layer is
\* added when the frame has the column, and the call raises when it has not
PlotOutcome(column, layer, next) ==
    /\ trace' = Append(trace, Call("plot", geojson_filepath, column, <<>>))
    /\ IF column \in df
       THEN /\ layers' = Append(layers, layer)
            /\ pc' = next
       ELSE /\ pc' = "raised"
            /\ UNCHANGED layers

\* line 116 and line 76-77: the next checked file is read
ReadFile ==
    /\ pc = "loop"
    /\ k <= Len(checked_files)
    /\ trace' = Append(trace, Call("read_file", geojson_filepath, "", <<>>))
    /\ LET at == Resolve(geojson_filepath)
       IN  IF at \in DOMAIN fs /\ fs[at].kind = "file" /\ fs[at].readable
           THEN /\ df' = fs[at].columns
                /\ pc' = After("read_file")
           ELSE /\ pc' = "raised"
                /\ UNCHANGED df
    /\ UNCHANGED <<cmdline, fs, args, i, checked_files, stdout, k,
                   default_cmap, figsize, layers, saved, hex_in, hex_out>>

\* lines 78-79: a new figure and axes, and default_cmap = 'coolwarm'
Subplots ==
    /\ pc = "subplots"
    /\ trace' = Append(trace, Call("subplots", geojson_filepath, "",
                                 <<args.xscale, args.yscale>>))
    /\ \E okx \in LibraryTakes(args.xscale), oky \in LibraryTakes(args.yscale) :
          IF okx /\ oky
          THEN /\ figsize' = <<args.xscale, args.yscale>>
               /\ layers' = <<>>
               /\ default_cmap' = "coolwarm"
               /\ pc' = After("subplots")
          ELSE /\ pc' = "raised"
               /\ UNCHANGED <<figsize, layers, default_cmap>>
    /\ UNCHANGED <<cmdline, fs, args, i, checked_files, stdout, k, df,
                   saved, hex_in, hex_out>>

\* lines 81-83: with criteria 'fuel' the column 'inaccessible' is drawn and
\* default_cmap becomes 'Wistia'
PlotInaccessible ==
    /\ pc = "fuel"
    /\ IF args.criteria = "fuel"
       THEN /\ PlotOutcome("inaccessible",
                           Layer("inaccessible", NamedCmap("RdYlBu"), None, 0),
                           After("fuel"))
            /\ default_cmap' = IF "inaccessible" \in df
                               THEN DefaultCmapAfter(args.criteria, default_cmap)
                               ELSE default_cmap
       ELSE /\ pc' = After("fuel")
            /\ UNCHANGED <<trace, layers, default_cmap>>
    /\ UNCHANGED <<cmdline, fs, args, i, checked_files, stdout, k, df,
                   figsize, saved, hex_in, hex_out>>

\* lines 85-88: the criteria column, with the AMSR2 colormap or default_cmap
PlotCriteria ==
    /\ pc = "criteria"
    /\ PlotOutcome(args.criteria,
                   Layer(args.criteria, CriteriaCmap(args.palette, default_cmap),
                         "grey", HalfPoint),
                   After("criteria"))
    /\ UNCHANGED <<cmdline, fs, args, i, checked_files, stdout, k, df,
                   default_cmap, figsize, saved, hex_in, hex_out>>

\* line 90: the column 'land'
PlotLand ==
    /\ pc = "land"
    /\ PlotOutcome("land",
                   Layer("land", NamedCmap("copper"), "brown", HalfPoint),
                   After("land"))
    /\ UNCHANGED <<cmdline, fs, args, i, checked_files, stdout, k, df,
                   default_cmap, figsize, saved, hex_in, hex_out>>

\* lines 92-94 and the next turn of line 116: the figure is saved, the call
\* returns and main goes on to the next checked file
Savefig ==
    /\ pc = "savefig"
    /\ LET png == AddSuffix(geojson_filepath, ".png")
       IN  /\ trace' = Append(trace, Call("savefig", png, "", <<args.dpi>>))
           /\ \E ok \in LibraryTakes(args.dpi) :
                 IF ok
                 THEN /\ saved' = Append(saved,
                                         [path |-> png, dpi |-> args.dpi,
                                          figsize |-> figsize,
                                          layers |-> layers])
                      /\ fs' = [q \in DOMAIN fs \cup {Resolve(png)} |->
                                   IF q = Resolve(png) THEN PngFile ELSE fs[q]]
                      /\ k' = k + 1
                      /\ pc' = After("savefig")
                 ELSE /\ pc' = "raised"
                      /\ UNCHANGED <<saved, fs, k>>
    /\ UNCHANGED <<cmdline, args, i, checked_files, stdout, df,
                   default_cmap, figsize, layers, hex_in, hex_out>>

\* line 116-117: no checked file is left, main returns
MainReturn ==
    /\ pc = "loop"
    /\ k > Len(checked_files)
    /\ pc' = "done"
    /\ UNCHANGED <<cmdline, fs, args, i, checked_files, stdout, k, df,
                   default_cmap, figsize, layers, saved, trace, hex_in, hex_out>>

(***************************************************************************)
(* The program.                                                            *)
(***************************************************************************)
Init ==
    /\ cmdline \in CommandLines
    /\ fs \in FileSystems
    /\ pc = "parse"
    /\ args = None
    /\ i = 0
    /\ checked_files = <<>>
    /\ stdout = <<>>
    /\ k = 0
    /\ df = {}
    /\ default_cmap = None
    /\ figsize = None
    /\ layers = <<>>
    /\ saved = <<>>
    /\ trace = <<>>
    /\ hex_in = <<>>
    /\ hex_out = <<>>

Next ==
    \/ ParseArgs
    \/ CheckFile
    \/ CheckReturn
    \/ ReadFile
    \/ Subplots
    \/ PlotInaccessible
    \/ PlotCriteria
    \/ PlotLand
    \/ Savefig
    \/ MainReturn

Spec == Init /\ [][Next]_vars

(***************************************************************************)
(* hex_to_rgba called on its own, on texts of 8 hexadecimal digits with    *)
(* and without '#' in front.  One channel takes every pair of digits (of   *)
(* either case) while the other three take a pair of FillerPairs.          *)
(***************************************************************************)
HexChars == { LowerDigits[n] : n \in 1..16 } \cup { UpperDigits[n] : n \in 1..16 }

FillerPairs == { <<"0", "0">>, <<"f", "f">> }

EightDigits ==
    { p1 \o p2 \o p3 \o p4 :
        p1 \in FillerPairs \cup (HexChars \X HexChars), p2 \in FillerPairs,
        p3 \in FillerPairs, p4 \in FillerPairs } \cup
    { p1 \o p2 \o p3 \o p4 :
        p1 \in FillerPairs, p2 \in HexChars \X HexChars,
        p3 \in FillerPairs, p4 \in FillerPairs } \cup
    { p1 \o p2 \o p3 \o p4 :
        p1 \in FillerPairs, p2 \in FillerPairs,
        p3 \in HexChars \X HexChars, p4 \in FillerPairs } \cup
    { p1 \o p2 \o p3 \o p4 :
        p1 \in FillerPairs, p2 \in FillerPairs,
        p3 \in FillerPairs, p4 \in HexChars \X HexChars }

Hashes(n) == [j \in 1..n |-> "#"]

HexInputs == { Hashes(n) \o d : n \in 0..MaxHashes, d \in EightDigits }

InitHex ==
    /\ cmdline = None
    /\ fs = None
    /\ pc = "hex_to_rgba"
    /\ args = None
    /\ i = 0
    /\ checked_files = <<>>
    /\ stdout = <<>>
    /\ k = 0
    /\ df = {}
    /\ default_cmap = None
    /\ figsize = None
    /\ layers = <<>>
    /\ saved = <<>>
    /\ trace = <<>>
    /\ hex_in \in HexInputs
    /\ hex_out = <<>>

\* lines 27-29: one call, hex_out = hex_to_rgba(hex_in)
HexCall ==
    /\ pc = "hex_to_rgba"
    /\ hex_out' = hex_to_rgba(hex_in)
    /\ pc' = "returned"
    /\ UNCHANGED <<cmdline, fs, args, i, checked_files, stdout, k, df,
                   default_cmap, figsize, layers, saved, trace, hex_in>>

NextHex == HexCall

SpecHex == InitHex /\ [][NextHex]_vars

(***************************************************************************)
(* The properties.  A float <<n, d>> has the value b / 255 when            *)
(* n * 255 = b * d.                                                        *)
(***************************************************************************)
IsFraction(f, b) == f[2] > 0 /\ f[1] * ChannelMax = b * f[2]

Started == pc # "parse"

\* the inputs examined so far by check_input_filenames
Examined == IF pc = "check" THEN i - 1 ELSE Len(args.files)

\* path names a regular file of the file system
RegularFile(path) ==
    \E q \in DOMAIN fs : q = Resolve(path) /\ fs[q].kind = "file"

RECURSIVE RegularFilesOf(_)
\* the regular files of a list of paths, in its order, each as often as given
RegularFilesOf(paths) ==
    IF paths = <<>> THEN <<>>
    ELSE LET rest == RegularFilesOf(SubSeq(paths, 1, Len(paths) - 1))
             last == paths[Len(paths)]
         IN  IF RegularFile(last) THEN Append(rest, last) ELSE rest

\* C2: check_input_filenames returns exactly the inputs that are regular
\* files, in command-line order and with their multiplicity, each as an
\* absolute path of the same location; one warning line is printed for every
\* input that is not a file (at the input's own position of the output), no
\* exception comes out of an existence check, and the input list is left as
\* it was given.
C2_CheckKeepsExactlyTheFiles ==
    Started =>
        LET given == SubSeq(args.files, 1, Examined)
            kept  == RegularFilesOf(given)
        IN  /\ args.files = cmdline.files
            /\ Len(checked_files) = Len(kept)
            /\ \A n \in 1..Len(kept) :
                  /\ checked_files[n].abs
                  /\ \A m \in 1..Len(checked_files[n].parts) :
                        checked_files[n].parts[m] \notin {".", "..", ""}
                  /\ Resolve(checked_files[n]) = Resolve(kept[n])
                  /\ checked_files[n].parts[Len(checked_files[n].parts)]
                        = kept[n].parts[Len(kept[n].parts)]
            /\ Len(stdout) = Examined
            /\ \A n \in 1..Examined :
                  /\ stdout[n].path = given[n]
                  /\ stdout[n].kind = "ignoring" <=> ~ RegularFile(given[n])
            /\ pc = "raised" => trace[Len(trace)].op # "isfile"

\* C2's case: the check has returned, one input was a relative path of a
\* file and was kept, another was no file and was left out
C2_Witness ==
    /\ pc = "loop"
    /\ Len(args.files) = 2
    /\ Len(checked_files) = 1
    /\ \E n \in 1..2 : ~ args.files[n].abs /\ RegularFile(args.files[n])
    /\ \E n \in 1..2 : stdout[n].kind = "ignoring"

\* the ramp as the specification lists it: percent range and colour bytes
ClaimedRamp ==
    <<
       [lo |-> 0, hi |-> 10, rgba |-> <<0, 0, 139, 0>>],   \* #00008b00
       [lo |-> 10, hi |-> 20, rgba |-> <<30, 144, 255, 255>>],   \* #1e90ffff
       [lo |-> 20, hi |-> 30, rgba |-> <<30, 250, 160, 255>>],   \* #1efaa0ff
       [lo |-> 30, hi |-> 40, rgba |-> <<34, 139, 34, 255>>],   \* #228b22ff
       [lo |-> 40, hi |-> 50, rgba |-> <<0, 250, 0, 255>>],   \* #00fa00ff
       [lo |-> 50, hi |-> 60, rgba |-> <<125, 250, 0, 255>>],   \* #7dfa00ff
       [lo |-> 60, hi |-> 70, rgba |-> <<173, 255, 47, 255>>],   \* #adff2fff
       [lo |-> 70, hi |-> 80, rgba |-> <<250, 250, 0, 255>>],   \* #fafa00ff
       [lo |-> 80, hi |-> 85, rgba |-> <<250, 125, 0, 255>>],   \* #fa7d00ff
       [lo |-> 85, hi |-> 90, rgba |-> <<250, 0, 0, 255>>],   \* #fa0000ff
       [lo |-> 90, hi |-> 95, rgba |-> <<186, 85, 211, 255>>],   \* #ba55d3ff
       [lo |-> 95, hi |-> 99, rgba |-> <<148, 0, 211, 255>>],   \* #9400d3ff
       [lo |-> 99, hi |-> 100, rgba |-> <<120, 0, 90, 255>>]   \* #78005aff
    >>

\* the listed colormaps just built: those of the layer drawn last, when the
\* criteria layer has just been drawn
ListedCmapsBuilt ==
    IF pc = "land" /\ layers # <<>> /\ layers[Len(layers)].cmap.kind = "listed"
    THEN {layers[Len(layers)].cmap}
    ELSE {}

\* C3: the table of create_amsr2_colormap, whenever a criteria layer has
\* been drawn with it, has exactly 100 entries; every
\* index 0..99 lies in exactly one of the 13 listed percent ranges and its
\* entry is that range's RGBA colour (each byte over 255); no entry is left
\* at the initial all-ones value.
C3_AmsrTableMatchesRamp ==
    \A cmap \in ListedCmapsBuilt :
        /\ Len(cmap.colors) = 100
        /\ Len(ClaimedRamp) = 13
        /\ \A idx \in 0..99 :
              /\ Cardinality({ b \in 1..Len(ClaimedRamp) :
                                  ClaimedRamp[b].lo <= idx /\ idx < ClaimedRamp[b].hi }) = 1
              /\ \A b \in 1..Len(ClaimedRamp) :
                    (ClaimedRamp[b].lo <= idx /\ idx < ClaimedRamp[b].hi) =>
                       /\ Len(cmap.colors[idx + 1]) = 4
                       /\ \A c \in 1..4 :
                             IsFraction(cmap.colors[idx + 1][c], ClaimedRamp[b].rgba[c])
              /\ \E c \in 1..4 : cmap.colors[idx + 1][c][1] # cmap.colors[idx + 1][c][2]

\* C3's case: the palette flag is set and the criteria layer has been drawn
\* with the table
C3_Witness ==
    /\ pc = "land"
    /\ args.palette
    /\ ListedCmapsBuilt # {}

\* the value of a hexadecimal digit, by its place among the sixteen digits
PlaceValue(c) ==
    CASE c \in {"0"} -> 0 [] c \in {"1"} -> 1 [] c \in {"2"} -> 2
      [] c \in {"3"} -> 3 [] c \in {"4"} -> 4 [] c \in {"5"} -> 5
      [] c \in {"6"} -> 6 [] c \in {"7"} -> 7 [] c \in {"8"} -> 8
      [] c \in {"9"} -> 9 [] c \in {"a", "A"} -> 10 [] c \in {"b", "B"} -> 11
      [] c \in {"c", "C"} -> 12 [] c \in {"d", "D"} -> 13
      [] c \in {"e", "E"} -> 14 [] c \in {"f", "F"} -> 15

\* the 8 digits of hex_in, whatever '#' stand in front of them
DigitsOfInput == SubSeq(hex_in, Len(hex_in) - 7, Len(hex_in))

\* the byte written by digits 2ch and 2ch+1 (ch = 0..3)
ByteOfInput(ch) ==
    16 * PlaceValue(DigitsOfInput[2 * ch + 1]) + PlaceValue(DigitsOfInput[2 * ch + 2])

\* C10: for a text of 8 hex digits, with or without '#' in front,
\* hex_to_rgba returns exactly 4 channels in the order R, G, B, A; channel
\* ch is the byte of digits 2ch and 2ch+1 divided by 255, lies in [0,1], and
\* is 0 for byte 0 and 1 for byte 255.
C10_HexToRgbaChannels ==
    pc = "returned" =>
        /\ Len(hex_out) = 4
        /\ \A ch \in 0..3 :
              LET f == hex_out[ch + 1]
                  b == ByteOfInput(ch)
              IN  /\ b \in 0..255
                  /\ IsFraction(f, b)
                  /\ 0 <= f[1] /\ f[1] <= f[2]
                  /\ b = 0 => f[1] = 0
                  /\ b = 255 => f[1] = f[2]

\* C10's case: a call has returned for a text with '#' in front whose
\* channels are 0, 1, a value strictly between, written with a capital digit
C10_Witness ==
    /\ pc = "returned"
    /\ Head(hex_in) = "#"
    /\ hex_out[1] = <<0, 1>>
    /\ hex_out[2] = <<1, 1>>
    /\ hex_out[3][1] \in 1..(hex_out[3][2] - 1)
    /\ \E n \in 1..Len(hex_in) : hex_in[n] \in {"A", "B", "C", "D", "E", "F"}

\* every axes drawn on so far: the current one and those of the saved files
AxesDrawn == {layers} \cup { saved[j].layers : j \in 1..Len(saved) }

\* the place of the criteria layer among the layers of one axes
CriteriaLayerIndex == IF args.criteria = "fuel" THEN 2 ELSE 1

\* C6: the palette flag alone decides the colormap of the criteria layer:
\* set, the layer is drawn with the colormap of create_amsr2_colormap for
\* every criteria; not set, with 'coolwarm', or 'Wistia' when criteria is
\* "fuel".  The flag is not set unless given, and criteria is "SIC" unless
\* given.
C6_PaletteFlagDecidesCmap ==
    Started =>
        /\ args.palette = cmdline.palette
        /\ cmdline.criteria = None => args.criteria = "SIC"
        /\ cmdline.criteria # None => args.criteria = cmdline.criteria
        /\ \A L \in AxesDrawn :
              Len(L) >= CriteriaLayerIndex =>
                 LET layer == L[CriteriaLayerIndex]
                 IN  /\ layer.column = args.criteria
                     /\ cmdline.palette =>
                           /\ layer.cmap.kind = "listed"
                           /\ layer.cmap = create_amsr2_colormap
                     /\ ~ cmdline.palette =>
                           /\ layer.cmap.kind = "named"
                           /\ layer.cmap.name =
                                 IF args.criteria = "fuel" THEN "Wistia"
                                 ELSE "coolwarm"

\* C6's case: the flag is set, criteria is "fuel", and the criteria layer
\* has been drawn
C6_Witness ==
    /\ Started
    /\ cmdline.palette
    /\ cmdline.criteria = "fuel"
    /\ Len(layers) >= 2

\* the colormap of the criteria layer of a run whose criteria is not "fuel"
NonFuelCmap(palette) ==
    IF palette THEN create_amsr2_colormap ELSE NamedCmap("coolwarm")

\* the layer that only a "fuel" run draws
InaccessibleLayer(layer) ==
    /\ layer.column = "inaccessible"
    /\ layer.cmap = NamedCmap("RdYlBu")
    /\ layer.edgecolor = None

\* C5 as stated: for every palette flag, a "fuel" run draws the criteria
\* column with another colormap than a run of any other criteria and the
\* same flag, and it draws one extra 'inaccessible' layer that no other run
\* draws.
C5_FuelAlwaysSwitchesCmap ==
    Started =>
        \A L \in AxesDrawn :
            Len(L) >= CriteriaLayerIndex =>
               IF args.criteria = "fuel"
               THEN /\ L[CriteriaLayerIndex].cmap # NonFuelCmap(cmdline.palette)
                    /\ \E n \in 1..Len(L) : InaccessibleLayer(L[n])
               ELSE /\ L[CriteriaLayerIndex].cmap = NonFuelCmap(cmdline.palette)
                    /\ \A n \in 1..Len(L) : ~ InaccessibleLayer(L[n])

\* C5 as amended: "fuel" switches the default colormap and adds the
\* 'inaccessible' layer.  With the palette flag not set a "fuel" run draws
\* the criteria column with 'Wistia' and any other run with 'coolwarm';
\* with the flag set both draw it with the AMSR2 colormap.  For every flag
\* a "fuel" run draws exactly one extra 'inaccessible' layer ('RdYlBu', no
\* edge colour), which no other run draws.
C5_FuelSwitchesDefaultCmap ==
    Started =>
        \A L \in AxesDrawn :
            Len(L) >= CriteriaLayerIndex =>
               IF args.criteria = "fuel"
               THEN /\ L[CriteriaLayerIndex].cmap =
                          IF cmdline.palette THEN NonFuelCmap(TRUE)
                          ELSE NamedCmap("Wistia")
                    /\ ~ cmdline.palette =>
                          L[CriteriaLayerIndex].cmap # NonFuelCmap(FALSE)
                    /\ Cardinality({ n \in 1..Len(L) : InaccessibleLayer(L[n]) }) = 1
               ELSE /\ L[CriteriaLayerIndex].cmap = NonFuelCmap(cmdline.palette)
                    /\ \A n \in 1..Len(L) : ~ InaccessibleLayer(L[n])

\* C5's case: criteria is "fuel", the palette flag is set, and both the
\* 'inaccessible' layer and the criteria layer have been drawn
C5_Witness ==
    /\ Started
    /\ args.criteria = "fuel"
    /\ cmdline.palette
    /\ Len(layers) >= 2
    /\ InaccessibleLayer(layers[1])

\* a call as far as its order is concerned
Shape(call) == <<call.op, call.path, call.column>>

\* the index of the last read_file of trace (0: none yet)
LastRead ==
    IF \E n \in 1..Len(trace) : trace[n].op = "read_file"
    THEN CHOOSE n \in 1..Len(trace) :
            /\ trace[n].op = "read_file"
            /\ \A m \in (n + 1)..Len(trace) : trace[m].op # "read_file"
    ELSE 0

\* the calls of one convert_to_png, 'inaccessible' before the criteria column
CallsInaccessibleFirst(path, criteria) ==
    <<  <<"read_file", path, "">>, <<"subplots", path, "">> >>
    \o (IF criteria = "fuel" THEN << <<"plot", path, "inaccessible">> >> ELSE <<>>)
    \o << <<"plot", path, criteria>>, <<"plot", path, "land">>,
          <<"savefig", AddSuffix(path, ".png"), "">> >>

\* the calls of one convert_to_png, 'inaccessible' after the criteria column
CallsInaccessibleAfter(path, criteria) ==
    <<  <<"read_file", path, "">>, <<"subplots", path, "">>,
        <<"plot", path, criteria>> >>
    \o (IF criteria = "fuel" THEN << <<"plot", path, "inaccessible">> >> ELSE <<>>)
    \o << <<"plot", path, "land">>,
          <<"savefig", AddSuffix(path, ".png"), "">> >>

\* the calls since the last read_file are the first calls of expected
RunsAlong(expected) ==
    LET done == Len(trace) - LastRead + 1
    IN  /\ done <= Len(expected)
        /\ \A n \in 1..done : Shape(trace[LastRead + n - 1]) = expected[n]

\* the edge colours of the layers of a saved file, bottom to top
EdgesOf(image) == [n \in 1..Len(image.layers) |-> image.layers[n].edgecolor]

\* C7 as stated: in one convert_to_png the file is read, the criteria column
\* is drawn, with criteria "fuel" the 'inaccessible' layer is drawn after it,
\* 'land' is drawn last and once, and the PNG is saved after all layers
\* (stated for the runs in which no call has raised).
C7_InaccessibleOverCriteria ==
    (LastRead > 0 /\ pc # "raised") =>
        /\ RunsAlong(CallsInaccessibleAfter(trace[LastRead].path, args.criteria))
        /\ \A j \in 1..Len(saved) :
              EdgesOf(saved[j]) = IF args.criteria = "fuel"
                                  THEN <<"grey", None, "brown">>
                                  ELSE <<"grey", "brown">>

\* C7 as amended: in one convert_to_png the file is read, with criteria
\* "fuel" the 'inaccessible' layer is drawn first (under the criteria
\* layer), then the criteria column is drawn, then 'land' on top of it, last
\* and once, and the PNG is saved only after all layers are drawn.
C7_InaccessibleUnderCriteria ==
    LastRead > 0 =>
        /\ RunsAlong(CallsInaccessibleFirst(trace[LastRead].path, args.criteria))
        /\ \A j \in 1..Len(saved) :
              EdgesOf(saved[j]) = IF args.criteria = "fuel"
                                  THEN <<None, "grey", "brown">>
                                  ELSE <<"grey", "brown">>

\* C7's case: a "fuel" run has saved a PNG of three layers
C7_Witness ==
    /\ Started
    /\ args.criteria = "fuel"
    /\ Len(saved) >= 1
    /\ Len(saved[1].layers) = 3
    /\ trace[Len(trace)].op = "savefig"

\* the number of read_file calls among the first m calls
RECURSIVE ReadsUpTo(_)
ReadsUpTo(m) ==
    IF m = 0 THEN 0
    ELSE ReadsUpTo(m - 1) + (IF trace[m].op = "read_file" THEN 1 ELSE 0)

\* C9: the run is sequential and staged.  Every input is checked, in
\* command-line order, before the first file is read, and no path is
\* checked again afterwards; the files are read in the order of the checked
\* list; the read of file j+1 comes right after the completed save of file
\* j; and every call between two reads is about the file read last.
C9_SequentialAndStaged ==
    Started =>
        LET n == Len(args.files)
        IN  /\ \A m \in 1..Len(trace) :
                  /\ trace[m].op = "isfile" <=> m <= n
                  /\ m <= n => trace[m].path = args.files[m]
            /\ pc \notin {"parse", "check"} => Len(trace) >= n
            /\ \A m \in 1..Len(trace) :
                  trace[m].op = "read_file" =>
                     LET j == ReadsUpTo(m)
                     IN  /\ j <= Len(checked_files)
                         /\ trace[m].path = checked_files[j]
                         /\ j = 1 => m = n + 1
                         /\ j > 1 =>
                               /\ Shape(trace[m - 1]) =
                                     <<"savefig", AddSuffix(checked_files[j - 1], ".png"), "">>
                               /\ Len(saved) >= j - 1
                               /\ saved[j - 1].path = AddSuffix(checked_files[j - 1], ".png")
            /\ \A m \in 1..Len(trace) :
                  trace[m].op \in {"subplots", "plot", "savefig"} =>
                     /\ ReadsUpTo(m) >= 1
                     /\ trace[m].path =
                           IF trace[m].op = "savefig"
                           THEN AddSuffix(checked_files[ReadsUpTo(m)], ".png")
                           ELSE checked_files[ReadsUpTo(m)]

\* C9's case: the run has ended with two different files rendered and saved
C9_Witness ==
    /\ pc = "done"
    /\ Len(saved) = 2
    /\ saved[1].path # saved[2].path

\* the program has ended: main returned, or an exception left it
Ended == pc \in {"done", "raised"}

\* no size or resolution option is given
DefaultSizes ==
    cmdline.xscale = None /\ cmdline.yscale = None /\ cmdline.dpi = None

\* the columns convert_to_png draws
ColumnsDrawn ==
    {args.criteria, "land"}
    \cup (IF args.criteria = "fuel" THEN {"inaccessible"} ELSE {})

\* path names a file that convert_to_png can render
Renderable(path) ==
    /\ RegularFile(path)
    /\ fs[Resolve(path)].readable
    /\ ColumnsDrawn \subseteq fs[Resolve(path)].columns

\* a file lies at `<path>.png`
PngWritten(path) ==
    /\ Resolve(AddSuffix(path, ".png")) \in DOMAIN fs
    /\ fs[Resolve(AddSuffix(path, ".png"))].kind = "file"

\* C1: one bad input (missing, or failing inside convert_to_png) does not
\* fail the batch: when the program has ended, every other input that
\* exists has been rendered and its PNG saved, wherever the bad input stands
\* in the list.
C1_OneBadFileDoesNotFailBatch ==
    (/\ Ended
     /\ DefaultSizes
     /\ Cardinality({ n \in 1..Len(args.files) : ~ Renderable(args.files[n]) }) = 1)
    => \A n \in 1..Len(args.files) :
          Renderable(args.files[n]) =>
             /\ PngWritten(args.files[n])
             /\ \E j \in 1..Len(saved) :
                   Resolve(saved[j].path) = Resolve(AddSuffix(args.files[n], ".png"))

\* C4 (for the inputs convert_to_png can render): when the program has
\* ended, every surviving input has exactly one PNG saved for it, at
\* `<input_path>.png` in the directory of the input, and no file is saved
\* for an input that was skipped.
C4_OnePngPerSurvivingInput ==
    (Ended /\ DefaultSizes) =>
        /\ \A n \in 1..Len(args.files) :
              Renderable(args.files[n]) =>
                 LET png == Resolve(AddSuffix(args.files[n], ".png"))
                     savedThere == { j \in 1..Len(saved) :
                                       Resolve(saved[j].path) = png }
                     sameInput == { m \in 1..Len(args.files) :
                                      Resolve(args.files[m]) = Resolve(args.files[n]) }
                 IN  /\ PngWritten(args.files[n])
                     /\ Cardinality(savedThere) = Cardinality(sameInput)
        /\ \A j \in 1..Len(saved) :
              \E n \in 1..Len(args.files) :
                 /\ RegularFile(args.files[n])
                 /\ Resolve(saved[j].path) = Resolve(AddSuffix(args.files[n], ".png"))

\* the number a size or resolution text of the command line stands for
NumberOf(text) ==
    CASE text = "50" -> 50 [] text = "20" -> 20 [] text = "300" -> 300

\* the size or resolution requested: the option's number, else the default
Requested(given, default) ==
    IntVal(IF given = None THEN default ELSE NumberOf(given))

\* C8: the width, height and DPI handed to the plotting library are numbers:
\* 40, 30 and 180 when -x, -y, -d are not given, and the numeric values of
\* the command line when they are.
C8_SizesArePassedAsNumbers ==
    Started =>
        \A m \in 1..Len(trace) :
            /\ trace[m].op = "subplots" =>
                  trace[m].given = << Requested(cmdline.xscale, 40),
                                      Requested(cmdline.yscale, 30) >>
            /\ trace[m].op = "savefig" =>
                  trace[m].given = << Requested(cmdline.dpi, 180) >>

=============================================================================
